---- MODULE Spec2Model ----
(***************************************************************************)
(* A model of airport.py: the NOAA fetchers (get_taf, get_shorttaf,        *)
(* get_metar), the report selector (get_latest_report), the reference-data *)
(* loader (read_airport_data, process_file) and the line utilities         *)
(* (get_datetime, search_string).                                          *)
(*                                                                         *)
(* Text is a sequence of one-character strings.  A Python value is a       *)
(* record [tag, v]: tag is the Python type, v the characters (str, bytes,  *)
(* the repr of a float) or the elements (list).                            *)
(***************************************************************************)
EXTENDS Integers, Sequences, FiniteSets, TLC

VARIABLES
    call,           \* the function the program was entered through
    pc,             \* the statement about to run ("returned"/"raised" at the end)
    exc,            \* the exception that left the function, "none" otherwise
    result,         \* the value the function returned (Python value)
    \* read_airport_data / process_file
    airport_file,   \* the lines of the file behind the handle
    pos,            \* index of the next line readline()/iteration yields
    line,           \* the local `line`
    airport_data,   \* the dict under construction: key text -> list value
    data,           \* the local `data` of read_airport_data (line 116)
    input_file,     \* process_file's handle: "unopened", "open", "closed"
    \* get_datetime / search_string
    string,         \* the argument of the pure function called
    \* fetchers and get_latest_report
    server,         \* the remote side: per product, how the fetch goes and the content
    urlStr,         \* the product the running fetch addresses
    fileHandle,     \* the running fetch's handle: "none", "open", "closed"
    fetched,        \* the local taf / shorttaf / metar of the running fetch
    taf,            \* get_latest_report's local taf
    shorttaf,       \* get_latest_report's local shorttaf
    attempts,       \* per product, the number of urlopen calls made
    printed         \* the products a failure message was printed for

vars == <<call, pc, exc, result, airport_file, pos, line, airport_data, data,
          input_file, string, server, urlStr, fileHandle, fetched, taf,
          shorttaf, attempts, printed>>

loaderVars == <<airport_file, pos, line, airport_data, data, input_file>>
fetchVars  == <<server, urlStr, fileHandle, fetched, taf, shorttaf, attempts, printed>>

----------------------------------------------------------------------------
(* Bounds *)

\* the longest reference-data file, in lines
MaxLines == 4

----------------------------------------------------------------------------
(* Python values *)

PyStr(c)   == [tag |-> "str",   v |-> c]
PyBytes(c) == [tag |-> "bytes", v |-> c]
PyFloat(c) == [tag |-> "float", v |-> c]
PyInt(n)   == [tag |-> "int",   v |-> n]
PyList(l)  == [tag |-> "list",  v |-> l]
PyNone     == [tag |-> "none",  v |-> <<>>]

\* what a call of a function without state does: return a value or raise
Return(val) == [ok |-> TRUE,  val |-> val, exc |-> "none"]
Raise(e)    == [ok |-> FALSE, val |-> PyNone, exc |-> e]

Digits     == {"0", "1", "2", "3", "4", "5", "6", "7", "8", "9"}
Whitespace == {" ", "\n"}

DigitVal(c) ==
    CASE c = "0" -> 0 [] c = "1" -> 1 [] c = "2" -> 2 [] c = "3" -> 3
      [] c = "4" -> 4 [] c = "5" -> 5 [] c = "6" -> 6 [] c = "7" -> 7
      [] c = "8" -> 8 [] c = "9" -> 9

\* s[a:b] of Python, 0-based, end exclusive, clipped to the text (a, b >= 0)
Slice(s, a, b) ==
    LET lo == IF a > Len(s) THEN Len(s) ELSE a
        hi == IF b > Len(s) THEN Len(s) ELSE b
    IN  IF hi <= lo THEN <<>> ELSE SubSeq(s, lo + 1, hi)

RECURSIVE lstrip(_)
lstrip(s) == IF s # <<>> /\ Head(s) \in Whitespace THEN lstrip(Tail(s)) ELSE s

RECURSIVE rstrip(_)
rstrip(s) ==
    IF s # <<>> /\ s[Len(s)] \in Whitespace
    THEN rstrip(SubSeq(s, 1, Len(s) - 1))
    ELSE s

\* str.strip(): whitespace removed at both ends, never inside
strip(s) == rstrip(lstrip(s))

\* index of the first sep in s, 0 when there is none
Find(s, sep) ==
    IF \E k \in 1..Len(s) : s[k] = sep
    THEN CHOOSE k \in 1..Len(s) : s[k] = sep /\ \A j \in 1..(k - 1) : s[j] # sep
    ELSE 0

\* the places of s that hold sep
SepsAt(s, sep) == {k \in 1..Len(s) : s[k] = sep}

\* the i-th smallest number of the set S
NthOf(S, i) == CHOOSE k \in S : Cardinality({j \in S : j < k}) = i - 1

\* str.split(sep): the pieces between the separators, empty pieces kept
split(s, sep) ==
    [i \in 1..(Cardinality(SepsAt(s, sep)) + 1) |->
        SubSeq(s,
               IF i = 1 THEN 1 ELSE NthOf(SepsAt(s, sep), i - 1) + 1,
               IF i = Cardinality(SepsAt(s, sep)) + 1
               THEN Len(s)
               ELSE NthOf(SepsAt(s, sep), i) - 1)]

\* the characters of a number without its sign
Unsigned(t) == IF t # <<>> /\ Head(t) \in {"+", "-"} THEN Tail(t) ELSE t

RECURSIVE DropLeadingZeros(_)
DropLeadingZeros(s) ==
    IF Len(s) > 1 /\ Head(s) = "0" THEN DropLeadingZeros(Tail(s)) ELSE s

RECURSIVE DropTrailingZeros(_)
DropTrailingZeros(s) ==
    IF Len(s) > 1 /\ s[Len(s)] = "0"
    THEN DropTrailingZeros(SubSeq(s, 1, Len(s) - 1))
    ELSE s

\* float(text) succeeds: optional blanks, optional sign, digits with at most
\* one point and at least one digit (the texts used here hold no exponent,
\* "inf" or "nan", which float() would accept as well)
FloatParses(s) ==
    LET u == Unsigned(strip(s))
    IN  /\ \A k \in 1..Len(u) : u[k] \in Digits \cup {"."}
        /\ Cardinality({k \in 1..Len(u) : u[k] = "."}) <= 1
        /\ \E k \in 1..Len(u) : u[k] \in Digits

\* float(text) where it succeeds: the number, held as the characters of its
\* repr ("50.50" and " 50.5" are the same float 50.5, "3" is 3.0)
float(s) ==
    LET t    == strip(s)
        u    == Unsigned(t)
        k    == Find(u, ".")
        ip   == IF k = 0 THEN u ELSE SubSeq(u, 1, k - 1)
        fp   == IF k = 0 THEN <<>> ELSE SubSeq(u, k + 1, Len(u))
        ipn  == DropLeadingZeros(IF ip = <<>> THEN <<"0">> ELSE ip)
        fpn  == DropTrailingZeros(IF fp = <<>> THEN <<"0">> ELSE fp)
        sign == IF t # <<>> /\ Head(t) = "-" THEN <<"-">> ELSE <<>>
    IN  PyFloat(sign \o ipn \o <<".">> \o fpn)

\* int(text) succeeds: optional blanks, optional sign, one or more digits
IntParses(s) ==
    LET u == Unsigned(strip(s))
    IN  u # <<>> /\ \A k \in 1..Len(u) : u[k] \in Digits

RECURSIVE DigitsValue(_)
DigitsValue(u) ==
    IF u = <<>> THEN 0
    ELSE 10 * DigitsValue(SubSeq(u, 1, Len(u) - 1)) + DigitVal(u[Len(u)])

\* int(text) where it succeeds
int(s) ==
    LET t == strip(s)
        n == DigitsValue(Unsigned(t))
    IN  IF t # <<>> /\ Head(t) = "-" THEN 0 - n ELSE n

----------------------------------------------------------------------------
(* The reference-data files *)

HeaderLine ==
    <<"I","C","A","O",",","N","a","m","e","\n">>
BlankLine ==
    <<"\n">>
RecEBCV ==
    <<"E","B","C","V",",","C","h","i","e","v","r","e","s",",","5","0",".","5","0",",","3",".","8",",","2","0","0",",","4","0","0",",","6","0","0",",","2","0","0","0",",","6","0","0",",","2","0","0","0","\n">>
RecEDDK ==
    <<" ","E","D","D","K",",","C","o","l","o","g","n","e",",","5","0",".","9",",","7",".","1",",","2","0","0",",","4","0","0",",","6","0","0",",","2","0","0","0",",","6","0","0",",","2","0","0","0","\n">>
RecNine ==
    <<"E","B","B","R",",","B","r","u","s","s","e","l","s",",","5","0",".","9",",","4",".","5",",","2","0","0",",","4","0","0",",","6","0","0",",","2","0","0","0",",","6","0","0","\n">>
RecEleven ==
    <<"E","T","I","H",",","I","l","l","e","s","h","e","i","m",",","4","9",".","5",",","1","0",".","4",",","4","0","0",",","1","6","0","0",",","1","5","0","0",",","3","2","0","0",",","1","5","0","0",",","3","2","0","0",",","X","\n">>
RecBadLat ==
    <<"E","D","D","F",",","F","r","a","n","k","f","u","r","t",",","N","5","0",",","8",".","6",",","2","0","0",",","4","0","0",",","6","0","0",",","2","0","0","0",",","6","0","0",",","2","0","0","0","\n">>
RecBadLon ==
    <<"L","F","P","G",",","P","a","r","i","s",",","4","9",".","0",",","E","2",",","2","0","0",",","4","0","0",",","6","0","0",",","2","0","0","0",",","6","0","0",",","2","0","0","0","\n">>

\* the lines a file is made of
LinePool ==
    {HeaderLine, BlankLine, RecEBCV, RecEDDK, RecNine, RecEleven, RecBadLat, RecBadLon}

\* every file of at most MaxLines lines
Files == UNION {[1..n -> LinePool] : n \in 0..MaxLines}

----------------------------------------------------------------------------
(* read_airport_data and process_file *)

\* airport_file.readline(): the next line, '' at the end of the file
ReadlineValue == IF pos <= Len(airport_file) THEN airport_file[pos] ELSE <<>>
ReadlinePos   == IF pos <= Len(airport_file) THEN pos + 1 ELSE pos

\* the fields line 115 unpacks
Fields(l) == split(strip(l), ",")

\* lines 114-116 raise ValueError on l: the unpacking of a list that has not
\* ten elements, or float() of the latitude or the longitude
RaisesValueError(l) ==
    IF Len(Fields(l)) # 10
    THEN TRUE
    ELSE ~FloatParses(Fields(l)[3]) \/ ~FloatParses(Fields(l)[4])

\* NewEntry with the parsed latitude and longitude stored in place of the text
NewEntryParsed(f) ==
    PyList([k \in 1..9 |-> IF k \in {2, 3} THEN float(f[k + 1]) ELSE PyStr(f[k + 1])])

\* the list lines 118-119 store for the fields f
NewEntry(f) == PyList([k \in 1..9 |-> PyStr(f[k + 1])])

\* line 116: data = {icao: [float(lat), float(lon)]}
DataDict(f) == [icao |-> f[1], v |-> <<float(f[3]), float(f[4])>>]

\* process_file line 181
OpenFile ==
    /\ call = "process_file" /\ pc = "open"
    /\ input_file' = "open"
    /\ pc' = "readline"
    /\ UNCHANGED <<call, exc, result, airport_file, pos, line, airport_data,
                   data, string>>
    /\ UNCHANGED fetchVars

\* line 106: line = airport_file.readline()
FirstReadline ==
    /\ pc = "readline"
    /\ line' = ReadlineValue
    /\ pos' = ReadlinePos
    /\ pc' = "while"
    /\ UNCHANGED <<call, exc, result, airport_file, airport_data, data,
                   input_file, string>>
    /\ UNCHANGED fetchVars

\* line 107: while line != '\n'
HeaderTest ==
    /\ pc = "while"
    /\ pc' = IF line # <<"\n">> THEN "header_readline" ELSE "for"
    /\ airport_data' = IF line # <<"\n">> THEN airport_data ELSE <<>>
    /\ UNCHANGED <<call, exc, result, airport_file, pos, line, data,
                   input_file, string>>
    /\ UNCHANGED fetchVars

\* line 108: line = airport_file.readline()
HeaderReadline ==
    /\ pc = "header_readline"
    /\ line' = ReadlineValue
    /\ pos' = ReadlinePos
    /\ pc' = "while"
    /\ UNCHANGED <<call, exc, result, airport_file, airport_data, data,
                   input_file, string>>
    /\ UNCHANGED fetchVars

\* lines 112-124, one iteration of the for loop over the remaining lines
ForLine ==
    /\ pc = "for"
    /\ pos <= Len(airport_file)
    /\ line' = airport_file[pos]
    /\ pos' = pos + 1
    /\ LET l == airport_file[pos]
           f == Fields(l)
       IN  IF RaisesValueError(l)
           THEN \* except ValueError: pass
                /\ pc' = "for"
                /\ UNCHANGED <<exc, airport_data, data>>
           ELSE /\ data' = DataDict(f)
                /\ IF f[1] \notin DOMAIN airport_data
                   THEN /\ airport_data' = airport_data @@ (f[1] :> NewEntry(f))
                        /\ pc' = "for"
                        /\ exc' = exc
                   ELSE \* list.append() with nine arguments
                        /\ pc' = "raised"
                        /\ exc' = "TypeError"
                        /\ airport_data' = airport_data
    /\ UNCHANGED <<call, result, airport_file, input_file, string>>
    /\ UNCHANGED fetchVars

\* line 126, back in process_file line 182
ReturnData ==
    /\ pc = "for"
    /\ pos > Len(airport_file)
    /\ pc' = "close_file"
    /\ UNCHANGED <<call, exc, result, airport_file, pos, line, airport_data,
                   data, input_file, string>>
    /\ UNCHANGED fetchVars

\* process_file lines 183-184
CloseFile ==
    /\ pc = "close_file"
    /\ input_file' = "closed"
    /\ result' = airport_data
    /\ pc' = "returned"
    /\ UNCHANGED <<call, exc, airport_file, pos, line, airport_data, data, string>>
    /\ UNCHANGED fetchVars

----------------------------------------------------------------------------
(* get_datetime *)

StampRest ==
    <<"2","0","1","2","/","1","1","/","2","7"," ","1","0",":","5","4"," ","r","e","s","t">>
StampBadMonth ==
    <<"2","0","1","2","/","1","3","/","2","7"," ","1","0",":","5","4">>
StampBadDay ==
    <<"2","0","1","2","/","0","2","/","3","0"," ","1","0",":","5","4">>
StampLeapDay ==
    <<"2","0","1","2","/","0","2","/","2","9"," ","2","3",":","5","9">>
StampAlpha ==
    <<"2","0","x","2","/","1","1","/","2","7"," ","1","0",":","5","4">>
StampBlanks ==
    <<" "," ","1","2","/"," ","1","/"," ","7"," "," ","1",":"," ","4">>

\* the arguments get_datetime is called with: every prefix of a stamped
\* line, and stamps that are no date
StampPool ==
    {Slice(StampRest, 0, n) : n \in 0..Len(StampRest)}
        \cup {StampBadMonth, StampBadDay, StampLeapDay, StampAlpha, StampBlanks}

IsLeap(y) == (y % 4 = 0 /\ y % 100 # 0) \/ y % 400 = 0

DaysInMonth(y, m) ==
    IF m = 2 THEN (IF IsLeap(y) THEN 29 ELSE 28)
    ELSE IF m \in {4, 6, 9, 11} THEN 30 ELSE 31

\* datetime.datetime(year, month, day, hour, minute) accepts its arguments
DatetimeAccepts(y, mo, d, h, mi) ==
    /\ y \in 1..9999
    /\ mo \in 1..12
    /\ d \in 1..DaysInMonth(y, mo)
    /\ h \in 0..23
    /\ mi \in 0..59

PyDatetime(y, mo, d, h, mi) == [tag |-> "datetime", v |-> <<y, mo, d, h, mi>>]

\* lines 209-216
get_datetime(l) ==
    LET ys  == Slice(l, 0, 4)
        mos == Slice(l, 5, 7)
        ds  == Slice(l, 8, 10)
        hs  == Slice(l, 11, 13)
        mis == Slice(l, 14, 16)
    IN  IF \E t \in {ys, mos, ds, hs, mis} : ~IntParses(t)
        THEN Raise("ValueError")
        ELSE IF ~DatetimeAccepts(int(ys), int(mos), int(ds), int(hs), int(mis))
        THEN Raise("ValueError")
        ELSE Return(PyDatetime(int(ys), int(mos), int(ds), int(hs), int(mis)))

CallGetDatetime ==
    /\ call = "get_datetime" /\ pc = "call"
    /\ LET r == get_datetime(line)
       IN  /\ result' = r.val
           /\ exc' = r.exc
           /\ pc' = IF r.ok THEN "returned" ELSE "raised"
    /\ UNCHANGED <<call, airport_file, pos, line, airport_data, data,
                   input_file, string>>
    /\ UNCHANGED fetchVars

----------------------------------------------------------------------------
(* search_string *)

Example ==
    <<"T","A","F"," ","T","A","F"," ","E","B","C","V"," ","0","5","1","6","1","5","Z"," ","0","5","1","9","/","0","6","0","7"," ","3","0","0","0","5","K","T"," ","8","0","0","0"," ","B","K","N","0","1","5">>
NoInterval ==
    <<"T","E","M","P","O"," ","B","R">>

\* the arguments search_string is called with: the docstring's line and its
\* prefixes, and a line without an interval
StringPool ==
    {Slice(Example, 0, n) : n \in 0..Len(Example)} \cup {NoInterval}

\* a local that no statement has bound yet
Unbound == [tag |-> "unbound", v |-> <<>>]

\* lines 249-251: the locals after the loop has run over s
RECURSIVE ForChars(_, _, _)
ForChars(s, place, i) ==
    IF s = <<>>
    THEN [place |-> place, i |-> i]
    ELSE ForChars(Tail(s),
                  IF Head(s) = "/" THEN PyStr(<<Head(s)>>) ELSE place,
                  PyStr(<<Head(s)>>))

\* a + b of Python on int and str
PyAdd(a, b) ==
    IF a.tag = "int" /\ b.tag = "int" THEN Return(PyInt(a.v + b.v))
    ELSE IF a.tag = "str" /\ b.tag = "str" THEN Return(PyStr(a.v \o b.v))
    ELSE Raise("TypeError")

\* lines 248-254
search_string(s) ==
    LET after == ForChars(s, PyInt(0), Unbound)
        lo    == PyAdd(after.i, PyInt(11))
        hi    == PyAdd(after.i, PyInt(20))
    IN  IF after.i.tag = "unbound" THEN Raise("UnboundLocalError")
        ELSE IF ~lo.ok THEN Raise(lo.exc)
        ELSE IF ~hi.ok THEN Raise(hi.exc)
        ELSE Return(PyStr(Slice(s, lo.val.v, hi.val.v)))

CallSearchString ==
    /\ call = "search_string" /\ pc = "call"
    /\ LET r == search_string(string)
       IN  /\ result' = r.val
           /\ exc' = r.exc
           /\ pc' = IF r.ok THEN "returned" ELSE "raised"
    /\ UNCHANGED <<call, airport_file, pos, line, airport_data, data,
                   input_file, string>>
    /\ UNCHANGED fetchVars

----------------------------------------------------------------------------
(* get_taf, get_shorttaf, get_metar *)

ReportNov19 ==
    <<"2","0","1","2","/","1","1","/","1","9"," ","1","3",":","5","1","\n","T","A","F"," ","E","B","C","V","\n">>
ReportNov18 ==
    <<"2","0","1","2","/","1","1","/","1","8"," ","1","9",":","4","5","\n","T","A","F"," ","E","B","C","V","\n"," ","T","E","M","P","O","\n">>
ReportNov19b ==
    <<"2","0","1","2","/","1","1","/","1","9"," ","1","3",":","5","1","\n","T","A","F"," ","T","A","F","\n">>
ReportNov19c ==
    <<"2","0","1","2","/","1","1","/","1","9"," ","1","3",":","5","1"," ","\n","T","A","F","\n">>
ReportNov9 ==
    <<"2","0","1","2","/","1","1","/","9"," ","1","3",":","5","1","\n","T","A","F","\n">>
ReportJan ==
    <<"2","0","1","3","/","0","1","/","0","2"," ","0","3",":","0","4","\n","T","A","F">>
ErrorText ==
    <<"e","r","r","o","r">>

\* what a remote resource may hold (one is empty, one has an unpadded day)
ContentPool ==
    {ReportNov19, ReportNov18, ReportNov19b, ReportNov19c, ReportNov9, ReportJan, <<>>}

\* how a fetch goes: the resource is read, or urlopen raises IOError, or the
\* read raises IOError
Remote ==
    [fails : {"never"}, content : ContentPool]
        \cup [fails : {"urlopen", "read"}, content : {ReportNov19}]

\* the sentinel 'error'
Error == PyStr(ErrorText)

\* the number of lines of b: one per newline, and one more for what follows
\* the last newline
LineCount(b) ==
    Cardinality(SepsAt(b, "\n"))
        + (IF b # <<>> /\ b[Len(b)] # "\n" THEN 1 ELSE 0)

\* fileHandle.readlines(): the content cut after every newline
readlines(b) ==
    [i \in 1..LineCount(b) |->
        SubSeq(b,
               IF i = 1 THEN 1 ELSE NthOf(SepsAt(b, "\n"), i - 1) + 1,
               IF i <= Cardinality(SepsAt(b, "\n"))
               THEN NthOf(SepsAt(b, "\n"), i)
               ELSE Len(b))]

\* lines 26, 52, 76: urllib.request.urlopen(urlStr)
Urlopen ==
    /\ pc = "urlopen"
    /\ attempts' = [attempts EXCEPT ![urlStr] = @ + 1]
    /\ IF server[urlStr].fails = "urlopen"
       THEN pc' = "except" /\ fileHandle' = fileHandle
       ELSE pc' = "read" /\ fileHandle' = "open"
    /\ UNCHANGED <<call, exc, result, string, server, urlStr, fetched, taf,
                   shorttaf, printed>>
    /\ UNCHANGED loaderVars

\* lines 27, 53: fileHandle.readlines(); line 77: fileHandle.read()
Read ==
    /\ pc = "read"
    /\ IF server[urlStr].fails = "read"
       THEN pc' = "except" /\ fetched' = fetched
       ELSE /\ pc' = "close"
            /\ fetched' = IF urlStr = "metar"
                          THEN PyBytes(server[urlStr].content)
                          ELSE PyList(readlines(server[urlStr].content))
    /\ UNCHANGED <<call, exc, result, string, server, urlStr, fileHandle, taf,
                   shorttaf, attempts, printed>>
    /\ UNCHANGED loaderVars

\* lines 28, 54, 78: fileHandle.close()
Close ==
    /\ pc = "close"
    /\ fileHandle' = "closed"
    /\ pc' = "return"
    /\ UNCHANGED <<call, exc, result, string, server, urlStr, fetched, taf,
                   shorttaf, attempts, printed>>
    /\ UNCHANGED loaderVars

\* ExceptIOError with the handler letting the exception through
ExceptReraise ==
    /\ pc = "except"
    /\ exc' = "IOError"
    /\ pc' = "raised"
    /\ UNCHANGED <<call, result, string>>
    /\ UNCHANGED fetchVars
    /\ UNCHANGED loaderVars

\* lines 29-31, 55-57, 79-81: except IOError
ExceptIOError ==
    /\ pc = "except"
    /\ printed' = printed \cup {urlStr}
    /\ fetched' = Error
    /\ pc' = "return"
    /\ UNCHANGED <<call, exc, result, string, server, urlStr, fileHandle, taf,
                   shorttaf, attempts>>
    /\ UNCHANGED loaderVars

\* lines 33, 59, 83, the fetcher called on its own
ReturnFetched ==
    /\ pc = "return"
    /\ call \in {"get_taf", "get_shorttaf", "get_metar"}
    /\ result' = fetched
    /\ pc' = "returned"
    /\ UNCHANGED <<call, exc, string>>
    /\ UNCHANGED fetchVars
    /\ UNCHANGED loaderVars

----------------------------------------------------------------------------
(* get_latest_report *)

\* the code of a byte
Ord(c) ==
    CASE c = "\n" -> 10 [] c = " " -> 32 [] c = "/" -> 47 [] c = ":" -> 58
      [] c \in Digits -> 48 + DigitVal(c)
      [] c = "A" -> 65 [] c = "B" -> 66 [] c = "C" -> 67 [] c = "E" -> 69
      [] c = "F" -> 70 [] c = "M" -> 77 [] c = "O" -> 79 [] c = "P" -> 80
      [] c = "T" -> 84 [] c = "V" -> 86

\* a > b on bytes: the first differing byte decides, a longer text is greater
\* than its prefix
RECURSIVE BytesGreater(_, _)
BytesGreater(a, b) ==
    IF a = <<>> THEN FALSE
    ELSE IF b = <<>> THEN TRUE
    ELSE IF Head(a) # Head(b) THEN Ord(Head(a)) > Ord(Head(b))
    ELSE BytesGreater(Tail(a), Tail(b))

\* SelectReport giving the sentinel as soon as one fetch failed
SelectReportEitherFails(t, s) ==
    IF t = Error \/ s = Error THEN Return(Error)
    ELSE IF t.v = <<>> \/ s.v = <<>> THEN Raise("IndexError")
    ELSE IF BytesGreater(t.v[1], s.v[1]) THEN Return(t)
    ELSE Return(s)

\* SelectReport comparing with >= in place of >
SelectReportGreaterEqual(t, s) ==
    IF t = Error THEN Return(s)
    ELSE IF s = Error THEN Return(t)
    ELSE IF t.v = <<>> \/ s.v = <<>> THEN Raise("IndexError")
    ELSE IF ~BytesGreater(s.v[1], t.v[1]) THEN Return(t)
    ELSE Return(s)

\* lines 230-237 on the two fetched values
SelectReport(t, s) ==
    IF t = Error THEN Return(s)
    ELSE IF s = Error THEN Return(t)
    ELSE IF t.v = <<>> \/ s.v = <<>> THEN Raise("IndexError")
    ELSE IF BytesGreater(t.v[1], s.v[1]) THEN Return(t)
    ELSE Return(s)

\* line 227: taf = get_taf(icao), the call
CallGetTaf ==
    /\ call = "get_latest_report" /\ pc = "call_get_taf"
    /\ urlStr' = "taf"
    /\ pc' = "urlopen"
    /\ UNCHANGED <<call, exc, result, string, server, fileHandle, fetched, taf,
                   shorttaf, attempts, printed>>
    /\ UNCHANGED loaderVars

\* line 227, the assignment; line 228: shorttaf = get_shorttaf(icao), the call
CallGetShorttaf ==
    /\ call = "get_latest_report" /\ pc = "return" /\ urlStr = "taf"
    /\ taf' = fetched
    /\ urlStr' = "shorttaf"
    /\ fileHandle' = "none"
    /\ fetched' = PyNone
    /\ pc' = "urlopen"
    /\ UNCHANGED <<call, exc, result, string, server, shorttaf, attempts, printed>>
    /\ UNCHANGED loaderVars

\* line 228, the assignment, and lines 230-237
Select ==
    /\ call = "get_latest_report" /\ pc = "return" /\ urlStr = "shorttaf"
    /\ shorttaf' = fetched
    /\ LET r == SelectReport(taf, fetched)
       IN  /\ result' = r.val
           /\ exc' = r.exc
           /\ pc' = IF r.ok THEN "returned" ELSE "raised"
    /\ UNCHANGED <<call, string, server, urlStr, fileHandle, fetched, taf,
                   attempts, printed>>
    /\ UNCHANGED loaderVars

----------------------------------------------------------------------------
(* The program *)

NoData == [icao |-> <<>>, v |-> <<>>]

Products == {"taf", "shorttaf", "metar"}

\* a resource no call of this run addresses
Unused == [fails |-> "never", content |-> <<>>]

InitLoader ==
    /\ call = "process_file" /\ pc = "open"
    /\ airport_file \in Files
    /\ line = <<>> /\ string = <<>>
    /\ server = [p \in Products |-> Unused]
    /\ urlStr = "none"

InitGetDatetime ==
    /\ call = "get_datetime" /\ pc = "call"
    /\ line \in StampPool
    /\ airport_file = <<>> /\ string = <<>>
    /\ server = [p \in Products |-> Unused]
    /\ urlStr = "none"

InitSearchString ==
    /\ call = "search_string" /\ pc = "call"
    /\ string \in StringPool
    /\ airport_file = <<>> /\ line = <<>>
    /\ server = [p \in Products |-> Unused]
    /\ urlStr = "none"

InitFetcher ==
    /\ \E p \in Products, r \in Remote :
          /\ call = "get_" \o p
          /\ urlStr = p
          /\ server = [q \in Products |-> IF q = p THEN r ELSE Unused]
    /\ pc = "urlopen"
    /\ airport_file = <<>> /\ line = <<>> /\ string = <<>>

InitLatestReport ==
    /\ call = "get_latest_report" /\ pc = "call_get_taf"
    /\ \E r1 \in Remote, r2 \in Remote :
          server = [q \in Products |->
                       IF q = "taf" THEN r1
                       ELSE IF q = "shorttaf" THEN r2 ELSE Unused]
    /\ urlStr = "none"
    /\ airport_file = <<>> /\ line = <<>> /\ string = <<>>

Init ==
    /\ exc = "none"
    /\ result = PyNone
    /\ pos = 1
    /\ airport_data = <<>>
    /\ data = NoData
    /\ input_file = "unopened"
    /\ fileHandle = "none"
    /\ fetched = PyNone
    /\ taf = PyNone
    /\ shorttaf = PyNone
    /\ attempts = [p \in Products |-> 0]
    /\ printed = {}
    /\ \/ InitLoader
       \/ InitGetDatetime
       \/ InitSearchString
       \/ InitFetcher
       \/ InitLatestReport

Next ==
    \/ OpenFile
    \/ FirstReadline
    \/ HeaderTest
    \/ HeaderReadline
    \/ ForLine
    \/ ReturnData
    \/ CloseFile
    \/ CallGetDatetime
    \/ CallSearchString
    \/ Urlopen
    \/ Read
    \/ Close
    \/ ExceptIOError
    \/ ReturnFetched
    \/ CallGetTaf
    \/ CallGetShorttaf
    \/ Select

Spec == Init /\ [][Next]_vars

\* the interpreter runs the next statement of process_file's opening and of
\* the header loop (lines 181, 106-108) whenever there is one
FairSpec ==
    Spec /\ WF_vars(OpenFile \/ FirstReadline \/ HeaderTest \/ HeaderReadline)

----------------------------------------------------------------------------
(* The claims *)

\* the function has ended, by a return or by an exception
Ended == pc \in {"returned", "raised"}

\* the texts of ls one after the other
RECURSIVE Join(_)
Join(ls) == IF ls = <<>> THEN <<>> ELSE Head(ls) \o Join(Tail(ls))

\* ls are the lines of b, in order: nothing lost, every line but the last
\* ends with its only newline
IsLinesOf(ls, b) ==
    /\ Join(ls) = b
    /\ \A k \in 1..Len(ls) :
          /\ ls[k] # <<>>
          /\ \A j \in 1..(Len(ls[k]) - 1) : ls[k][j] # "\n"
          /\ k < Len(ls) => ls[k][Len(ls[k])] = "\n"

\* a > b in the order of the byte codes, stated by the first difference
LexGreater(a, b) ==
    \E k \in 1..Len(a) :
        /\ \A j \in 1..(k - 1) : j <= Len(b) /\ a[j] = b[j]
        /\ (k > Len(b) \/ Ord(a[k]) > Ord(b[k]))

\* l begins with a zero-padded 'YYYY/MM/DD HH:MM'
HasStamp(l) ==
    /\ Len(l) >= 16
    /\ \A k \in {1, 2, 3, 4, 6, 7, 9, 10, 12, 13, 15, 16} : l[k] \in Digits
    /\ l[5] = "/" /\ l[8] = "/" /\ l[11] = " " /\ l[14] = ":"

\* year, month, day, hour, minute of a line that has a stamp
StampOf(l) ==
    <<DigitsValue(SubSeq(l, 1, 4)), DigitsValue(SubSeq(l, 6, 7)),
      DigitsValue(SubSeq(l, 9, 10)), DigitsValue(SubSeq(l, 12, 13)),
      DigitsValue(SubSeq(l, 15, 16))>>

\* the moment a is after the moment b
Later(a, b) ==
    \E k \in 1..5 : a[k] > b[k] /\ \A j \in 1..(k - 1) : a[j] = b[j]

\* C1: get_latest_report returns what get_shorttaf returned whenever get_taf
\* returned 'error', else what get_taf returned whenever get_shorttaf
\* returned 'error'; it returns 'error' only when both fetches failed.
C1_SentinelFallback ==
    (call = "get_latest_report" /\ Ended) =>
        /\ taf = Error => (pc = "returned" /\ result = shorttaf)
        /\ (taf # Error /\ shorttaf = Error) => (pc = "returned" /\ result = taf)
        /\ (pc = "returned" /\ result = Error) =>
              (server["taf"].fails # "never" /\ server["shorttaf"].fails # "never")

C1_Witness ==
    /\ call = "get_latest_report" /\ pc = "returned"
    /\ server["taf"].fails = "read" /\ server["shorttaf"].fails = "never"
    /\ taf = Error /\ shorttaf # Error /\ result = shorttaf

\* C2: with both fetches successful and not empty, get_latest_report returns
\* the standard sequence when its first line is strictly greater and the short
\* sequence otherwise (equal first lines included); between first lines with
\* a zero-padded stamp the later moment wins; the sequence returned is the
\* winner's lines, all of them, as fetched.
C2_LaterReportWins ==
    (/\ call = "get_latest_report" /\ Ended
     /\ taf.tag = "list" /\ shorttaf.tag = "list"
     /\ taf.v # <<>> /\ shorttaf.v # <<>>) =>
        /\ pc = "returned"
        /\ result = IF LexGreater(taf.v[1], shorttaf.v[1]) THEN taf ELSE shorttaf
        /\ taf.v[1] = shorttaf.v[1] => result = shorttaf
        /\ (HasStamp(taf.v[1]) /\ HasStamp(shorttaf.v[1])) =>
              /\ Later(StampOf(taf.v[1]), StampOf(shorttaf.v[1])) => result = taf
              /\ Later(StampOf(shorttaf.v[1]), StampOf(taf.v[1])) => result = shorttaf
        /\ \/ result = taf /\ IsLinesOf(result.v, server["taf"].content)
           \/ result = shorttaf /\ IsLinesOf(result.v, server["shorttaf"].content)

C2_Witness ==
    /\ call = "get_latest_report" /\ pc = "returned"
    /\ server["taf"].content = ReportNov19 /\ server["shorttaf"].content = ReportNov18
    /\ taf.tag = "list" /\ shorttaf.tag = "list"
    /\ Later(StampOf(taf.v[1]), StampOf(shorttaf.v[1]))
    /\ result = taf /\ Len(result.v) = 2

\* the index of the blank line that ends the header, 0 when there is none
HeaderEnd == Find(airport_file, BlankLine)

\* l has ten comma-separated fields and a latitude and longitude that parse
WellFormed(l) ==
    /\ Cardinality({k \in 1..Len(strip(l)) : strip(l)[k] = ","}) = 9
    /\ FloatParses(Fields(l)[3])
    /\ FloatParses(Fields(l)[4])

\* the identifier of a record line
Icao(l) == Fields(l)[1]

\* C3: a record line that is not well-formed is skipped without raising, adds
\* no entry, and every later well-formed record is still loaded.
C3_MalformedSkipped ==
    (call = "process_file" /\ Ended) =>
        \A k \in (HeaderEnd + 1)..Len(airport_file) :
            (~WellFormed(airport_file[k]) /\ pos > k) =>
                /\ pc = "returned"
                /\ \A j \in (k + 1)..Len(airport_file) :
                      WellFormed(airport_file[j]) => Icao(airport_file[j]) \in DOMAIN result
                /\ Icao(airport_file[k]) \in DOMAIN result =>
                      \E j \in (HeaderEnd + 1)..Len(airport_file) :
                          /\ WellFormed(airport_file[j])
                          /\ Icao(airport_file[j]) = Icao(airport_file[k])

\* C4: on every file the load completes and maps each identifier to exactly
\* one nine-field record.
C4_OneRecordPerIcao ==
    (call = "process_file" /\ Ended) =>
        /\ pc = "returned"
        /\ \A key \in DOMAIN result :
              result[key].tag = "list" /\ Len(result[key].v) = 9

\* the file is a header of one or more non-blank lines, a blank line and one
\* well-formed record
OneRecordFile ==
    /\ Len(airport_file) >= 3
    /\ HeaderEnd = Len(airport_file) - 1
    /\ WellFormed(airport_file[Len(airport_file)])

\* the one record of such a file
OneRecord == Fields(airport_file[Len(airport_file)])

\* C5 as claimed: the one entry holds the latitude and the longitude as
\* floating-point numbers and the seven other fields as text.
C5_ParsedCoordinates ==
    (call = "process_file" /\ pc = "returned" /\ OneRecordFile) =>
        /\ DOMAIN result = {OneRecord[1]}
        /\ result[OneRecord[1]] =
              PyList(<<PyStr(OneRecord[2]), float(OneRecord[3]), float(OneRecord[4]),
                       PyStr(OneRecord[5]), PyStr(OneRecord[6]), PyStr(OneRecord[7]),
                       PyStr(OneRecord[8]), PyStr(OneRecord[9]), PyStr(OneRecord[10])>>)

\* C5 as amended: the one entry holds all nine fields as text, in file order,
\* the latitude and the longitude included, as they stand in the file.
C5_VerbatimFields ==
    (call = "process_file" /\ Ended /\ OneRecordFile) =>
        /\ pc = "returned"
        /\ DOMAIN result = {OneRecord[1]}
        /\ result[OneRecord[1]] =
              PyList(<<PyStr(OneRecord[2]), PyStr(OneRecord[3]), PyStr(OneRecord[4]),
                       PyStr(OneRecord[5]), PyStr(OneRecord[6]), PyStr(OneRecord[7]),
                       PyStr(OneRecord[8]), PyStr(OneRecord[9]), PyStr(OneRecord[10])>>)

C5_Witness ==
    /\ call = "process_file" /\ pc = "returned"
    /\ airport_file = <<HeaderLine, HeaderLine, BlankLine, RecEBCV>>
    /\ result[Icao(RecEBCV)].v[2] = PyStr(<<"5", "0", ".", "5", "0">>)
    /\ data.v[1] = PyFloat(<<"5", "0", ".", "5">>)

\* C6: once process_file has ended, by a return or by an exception, the
\* handle it opened is closed.
C6_HandleReleased ==
    (call = "process_file" /\ Ended) => input_file = "closed"

\* C7: a fetcher called on its own never raises and makes one urlopen call; it
\* returns 'error', a message printed, when the open or the read failed, and
\* otherwise the lines of the resource in order (get_metar: the content whole).
C7_FetchOrSentinel ==
    (call \in {"get_taf", "get_shorttaf", "get_metar"} /\ Ended) =>
        /\ pc = "returned" /\ exc = "none"
        /\ attempts[urlStr] = 1
        /\ server[urlStr].fails # "never" => (result = Error /\ urlStr \in printed)
        /\ server[urlStr].fails = "never" =>
              /\ urlStr \notin printed
              /\ IF urlStr = "metar"
                 THEN result = PyBytes(server[urlStr].content)
                 ELSE result.tag = "list" /\ IsLinesOf(result.v, server[urlStr].content)

C7_Witness ==
    /\ call = "get_shorttaf" /\ pc = "returned"
    /\ server["shorttaf"].fails = "read"
    /\ result = Error /\ printed = {"shorttaf"} /\ attempts["shorttaf"] = 1

\* l begins with a zero-padded stamp that is a date and a time of day
HasDateStamp(l) ==
    /\ HasStamp(l)
    /\ DatetimeAccepts(StampOf(l)[1], StampOf(l)[2], StampOf(l)[3],
                       StampOf(l)[4], StampOf(l)[5])

\* C8: get_datetime returns the date-time of the five numbers of a line that
\* begins with a stamp, and fails on every line shorter than 16 characters.
C8_ShortLineFails ==
    (call = "get_datetime" /\ Ended) =>
        /\ HasDateStamp(line) =>
              /\ pc = "returned"
              /\ result = PyDatetime(StampOf(line)[1], StampOf(line)[2], StampOf(line)[3],
                                     StampOf(line)[4], StampOf(line)[5])
        /\ Len(line) < 16 => pc = "raised"

\* the places of s where a blank is followed by DDDD/DDDD
IntervalsAt(s) ==
    {k \in 1..(Len(s) - 9) :
        /\ s[k] \in Whitespace
        /\ \A j \in {1, 2, 3, 4, 6, 7, 8, 9} : s[k + j] \in Digits
        /\ s[k + 5] = "/"}

\* the first validity-interval token of s
Interval(s) ==
    LET k == CHOOSE k \in IntervalsAt(s) : \A j \in IntervalsAt(s) : k <= j
    IN  SubSeq(s, k + 1, k + 9)

\* C9: search_string returns the validity-interval token of a line that holds
\* one, and fails on a line that holds none.
C9_IntervalFound ==
    (call = "search_string" /\ Ended) =>
        IF IntervalsAt(string) # {}
        THEN pc = "returned" /\ result = PyStr(Interval(string))
        ELSE pc = "raised"

\* C10: on every file the header loop of read_airport_data comes to an end,
\* at the first blank line or at the end of the file.
C10_HeaderLoopStops ==
    <>(call = "process_file" => pc \in {"for", "close_file", "returned", "raised"})

====
